---- MODULE Spec2Model ----
(***************************************************************************)
(* Model of src/util/algorithm.hpp (namespace top1): join_strings,         *)
(* generate_sequence, for_each_n, indexed_for and indexed_for_n.           *)
(*                                                                         *)
(* One call of one of the five functions is modelled per behaviour.  Init  *)
(* draws the function and its arguments; the actions are the steps of the  *)
(* function body.  Strings are sequences of characters, iterators are      *)
(* zero-based positions into the caller's sequence, and every invocation   *)
(* of the caller's visitor or generator is recorded in the log `calls`     *)
(* with the arguments it was given.                                        *)
(***************************************************************************)
EXTENDS Integers, Sequences, FiniteSets, TLC

\* ---------------------------------------------------------------- bounds
MaxLen == 4        \* longest caller sequence handed to the iteration functions
MaxStrs == 3       \* longest sequence of strings handed to join_strings
MaxStrLen == 1     \* longest element string handed to join_strings
MaxN == 3          \* largest template argument n of generate_sequence
SizeMax == 7       \* largest value of the (narrowed) std::size_t

\* ---------------------------------------------------------------- inputs
Values == {10, 20, 30, 40}
Chars == {"a", ","}
GenVals == {0, 1, 4}

RECURSIVE SeqsUpTo(_, _)
SeqsUpTo(S, k) ==
  IF k = 0 THEN {<<>>}
  ELSE LET shorter == SeqsUpTo(S, k - 1)
       IN  shorter \cup {Append(s, x) : s \in {t \in shorter : Len(t) = k - 1}, x \in S}

Strings == SeqsUpTo(Chars, MaxStrLen)
Separators == {<<>>, <<",">>, <<",", " ">>}
Generators == [0 .. MaxN -> GenVals]

VARIABLES
  op,       \* the function being called
  pc,       \* position inside the function body
  strs,     \* join_strings: the range [b, e) of strings
  js,       \* join_strings: the separator
  result,   \* join_strings: the local std::string result
  sepLog,   \* join_strings: per lambda invocation, whether result.append(js) ran
  tn,       \* generate_sequence: the template argument n
  gen,      \* generate_sequence: the generator, as a function of the index
  intseq,   \* generate_sequence: the std::integer_sequence<int, ns...>
  arr,      \* generate_sequence_impl: the initializers of std::array evaluated so far
  input,    \* the caller's sequence the iterators point into
  first,    \* the iterator argument `first`, as a zero-based position
  last,     \* indexed_for: the iterator argument `last`
  n,        \* for_each_n / indexed_for_n: the count argument
  cursor,   \* the iterator as the function advances it
  i,        \* the index variable of the function body
  calls,    \* log of invocations of the caller's visitor / generator
  ret,      \* <<v>> once the function has returned v, <<>> before
  strs0,    \* the caller's copy of strs taken before the call
  input0    \* the caller's copy of input taken before the call

vars == <<op, pc, strs, js, result, sepLog, tn, gen, intseq, arr, input, first,
          last, n, cursor, i, calls, ret, strs0, input0>>

joinVars == <<strs, js, result, sepLog, strs0>>
genVars == <<tn, gen, intseq, arr>>
iterVars == <<input, first, last, n, cursor, i, input0>>

\* The element an iterator at zero-based position p refers to (*p).
Deref(p) == input[p + 1]

\* ------------------------------------------------------------------ Init
NoGen == [k \in 0 .. MaxN |-> 0]

InitJoin ==
  /\ op = "join_strings"
  /\ strs \in SeqsUpTo(Strings, MaxStrs)
  /\ js \in Separators
  /\ tn = 0 /\ gen = NoGen
  /\ input = <<>> /\ first = 0 /\ last = 0 /\ n = 0

InitGenerate ==
  /\ op = "generate_sequence"
  /\ tn \in 0 .. MaxN
  /\ gen \in Generators
  /\ strs = <<>> /\ js = <<>>
  /\ input = <<>> /\ first = 0 /\ last = 0 /\ n = 0

InitCounted ==
  /\ op \in {"for_each_n", "indexed_for_n"}
  /\ input \in SeqsUpTo(Values, MaxLen)
  /\ first \in 0 .. Len(input)
  /\ n \in 0 .. (Len(input) - first)
  /\ last = 0
  /\ strs = <<>> /\ js = <<>> /\ tn = 0 /\ gen = NoGen

InitRange ==
  /\ op = "indexed_for"
  /\ input \in SeqsUpTo(Values, MaxLen)
  /\ first \in 0 .. Len(input)
  /\ last \in first .. Len(input)
  /\ n = 0
  /\ strs = <<>> /\ js = <<>> /\ tn = 0 /\ gen = NoGen

Init ==
  /\ (InitJoin \/ InitGenerate \/ InitCounted \/ InitRange)
  /\ pc = "call"
  /\ result = <<>> /\ sepLog = <<>>
  /\ intseq = <<>> /\ arr = <<>>
  /\ cursor = 0 /\ i = 0
  /\ calls = <<>> /\ ret = <<>>
  /\ strs0 = strs /\ input0 = input

\* ---------------------------------------------------------- join_strings
\* std::string result;  std::for_each(b, e, ...) starts at b.
JoinStringsCall ==
  /\ op = "join_strings" /\ pc = "call"
  /\ result' = <<>>
  /\ cursor' = 0
  /\ pc' = "loop"
  /\ UNCHANGED <<op, strs, js, sepLog, strs0, genVars, input, first, last, n, i,
                 input0, calls, ret>>

\* Faulty variant: the separator is decided by the element's position.
JoinStringsVisitPositionMutant ==
  /\ op = "join_strings" /\ pc = "loop"
  /\ cursor < Len(strs)
  /\ LET s == strs[cursor + 1]
         sep == (cursor > 0)
     IN  /\ result' = (IF sep THEN result \o js ELSE result) \o s
         /\ sepLog' = Append(sepLog, sep)
  /\ cursor' = cursor + 1
  /\ UNCHANGED <<op, pc, strs, js, strs0, genVars, input, first, last, n, i,
                 input0, calls, ret>>

\* One invocation of the lambda on the element s at the cursor:
\* if (!result.empty()) result.append(js);  result.append(s);
JoinStringsVisit ==
  /\ op = "join_strings" /\ pc = "loop"
  /\ cursor < Len(strs)
  /\ LET s == strs[cursor + 1]
         sep == (result # <<>>)
     IN  /\ result' = (IF sep THEN result \o js ELSE result) \o s
         /\ sepLog' = Append(sepLog, sep)
  /\ cursor' = cursor + 1
  /\ UNCHANGED <<op, pc, strs, js, strs0, genVars, input, first, last, n, i,
                 input0, calls, ret>>

\* return result;
JoinStringsReturn ==
  /\ op = "join_strings" /\ pc = "loop"
  /\ cursor = Len(strs)
  /\ ret' = <<result>>
  /\ pc' = "done"
  /\ UNCHANGED <<op, joinVars, genVars, iterVars, calls>>

\* ----------------------------------------------------- generate_sequence
\* std::make_integer_sequence<int, n>() is the pack 0, 1, ..., n-1.
MakeIntegerSequence(k) == [j \in 1 .. k |-> j - 1]

\* A slot of the std::array whose initializer has not been evaluated yet.
Unset == -1

\* auto intseq = std::make_integer_sequence<int, n>();
GenerateSequenceCall ==
  /\ op = "generate_sequence" /\ pc = "call"
  /\ intseq' = MakeIntegerSequence(tn)
  /\ arr' = [j \in 1 .. tn |-> Unset]
  /\ pc' = "impl"
  /\ UNCHANGED <<op, joinVars, tn, gen, iterVars, calls, ret>>

\* Faulty variant: the clauses are evaluated right to left.
NextInitializerMutant(done, total) == total - done

\* The pack element whose initializer-clause is evaluated next, when `done`
\* of `total` clauses have been evaluated: the clauses of a braced-init-list
\* are evaluated in the order in which they appear.
NextInitializer(done, total) == done + 1

\* std::array{std::invoke(gen, ns)...} with an empty pack is std::array{}:
\* no element type can be deduced and the instantiation is rejected.
GenerateSequenceImplIllFormed ==
  /\ op = "generate_sequence" /\ pc = "impl"
  /\ Len(intseq) = 0
  /\ pc' = "ill_formed"
  /\ UNCHANGED <<op, joinVars, genVars, iterVars, calls, ret>>

\* One std::invoke(std::forward<Func>(gen), ns) of the pack expansion.
GenerateSequenceImplInvoke ==
  /\ op = "generate_sequence" /\ pc = "impl"
  /\ Len(calls) < Len(intseq)
  /\ LET k == NextInitializer(Len(calls), Len(intseq))
         ns == intseq[k]
     IN  /\ calls' = Append(calls, <<ns>>)
         /\ arr' = [arr EXCEPT ![k] = gen[ns]]
  /\ UNCHANGED <<op, pc, joinVars, tn, gen, intseq, iterVars, ret>>

\* return std::array{...};
GenerateSequenceImplReturn ==
  /\ op = "generate_sequence" /\ pc = "impl"
  /\ Len(intseq) > 0
  /\ Len(calls) = Len(intseq)
  /\ ret' = <<arr>>
  /\ pc' = "done"
  /\ UNCHANGED <<op, joinVars, genVars, iterVars, calls>>

\* ------------------------------------------------------------ for_each_n
\* for (Size i = 0; ...
ForEachNCall ==
  /\ op = "for_each_n" /\ pc = "call"
  /\ i' = 0
  /\ cursor' = first
  /\ pc' = "test"
  /\ UNCHANGED <<op, joinVars, genVars, input, first, last, n, input0, calls, ret>>

\* Faulty variant: the visitor gets a one-based index.
ForEachNInvokeIndexMutant ==
  /\ op = "for_each_n" /\ pc = "test"
  /\ i < n
  /\ calls' = Append(calls, <<Deref(cursor), i + 1>>)
  /\ pc' = "incr"
  /\ UNCHANGED <<op, joinVars, genVars, iterVars, ret>>

\* Faulty variant: the visited element is moved from.
ForEachNInvokeWriteMutant ==
  /\ op = "for_each_n" /\ pc = "test"
  /\ i < n
  /\ calls' = Append(calls, <<Deref(cursor), i>>)
  /\ input' = [input EXCEPT ![cursor + 1] = 0]
  /\ pc' = "incr"
  /\ UNCHANGED <<op, joinVars, genVars, first, last, n, cursor, i, input0, ret>>

\* i < n;  std::invoke(std::forward<F>(f), *first, i);
ForEachNInvoke ==
  /\ op = "for_each_n" /\ pc = "test"
  /\ i < n
  /\ calls' = Append(calls, <<Deref(cursor), i>>)
  /\ pc' = "incr"
  /\ UNCHANGED <<op, joinVars, genVars, iterVars, ret>>

\* ++first, (void) ++i
ForEachNAdvance ==
  /\ op = "for_each_n" /\ pc = "incr"
  /\ cursor' = cursor + 1
  /\ i' = i + 1
  /\ pc' = "test"
  /\ UNCHANGED <<op, joinVars, genVars, input, first, last, n, input0, calls, ret>>

\* !(i < n);  return first;
ForEachNReturn ==
  /\ op = "for_each_n" /\ pc = "test"
  /\ ~(i < n)
  /\ ret' = <<cursor>>
  /\ pc' = "done"
  /\ UNCHANGED <<op, joinVars, genVars, iterVars, calls>>

\* ----------------------------------------------------------- indexed_for
\* std::size_t i;  has no initializer: its value is indeterminate.
IndexedForCall ==
  /\ op = "indexed_for" /\ pc = "call"
  /\ i' \in 0 .. SizeMax
  /\ cursor' = first
  /\ pc' = "loop"
  /\ UNCHANGED <<op, joinVars, genVars, input, first, last, n, input0, calls, ret>>

\* One invocation of the lambda: std::invoke(f, a, i);  i++;
IndexedForVisit ==
  /\ op = "indexed_for" /\ pc = "loop"
  /\ cursor # last
  /\ calls' = Append(calls, <<Deref(cursor), i>>)
  /\ i' = (i + 1) % (SizeMax + 1)
  /\ cursor' = cursor + 1
  /\ UNCHANGED <<op, pc, joinVars, genVars, input, first, last, n, input0, ret>>

\* return i;
IndexedForReturn ==
  /\ op = "indexed_for" /\ pc = "loop"
  /\ cursor = last
  /\ ret' = <<i>>
  /\ pc' = "done"
  /\ UNCHANGED <<op, joinVars, genVars, iterVars, calls>>

\* --------------------------------------------------------- indexed_for_n
\* for (Size i = 0; ...
IndexedForNCall ==
  /\ op = "indexed_for_n" /\ pc = "call"
  /\ i' = 0
  /\ cursor' = first
  /\ pc' = "test"
  /\ UNCHANGED <<op, joinVars, genVars, input, first, last, n, input0, calls, ret>>

\* Faulty variant: the visitor is invoked with the element alone.
IndexedForNInvokeElementOnlyMutant ==
  /\ op = "indexed_for_n" /\ pc = "test"
  /\ i < n
  /\ calls' = Append(calls, <<Deref(cursor)>>)
  /\ pc' = "incr"
  /\ UNCHANGED <<op, joinVars, genVars, iterVars, ret>>

\* i < n;  std::invoke(std::forward<F>(f), *first, i);
IndexedForNInvoke ==
  /\ op = "indexed_for_n" /\ pc = "test"
  /\ i < n
  /\ calls' = Append(calls, <<Deref(cursor), i>>)
  /\ pc' = "incr"
  /\ UNCHANGED <<op, joinVars, genVars, iterVars, ret>>

\* Faulty variant: the increment step forgets ++first.
IndexedForNAdvanceMutant ==
  /\ op = "indexed_for_n" /\ pc = "incr"
  /\ cursor' = cursor
  /\ i' = i + 1
  /\ pc' = "test"
  /\ UNCHANGED <<op, joinVars, genVars, input, first, last, n, input0, calls, ret>>

\* ++first, (void) ++i
IndexedForNAdvance ==
  /\ op = "indexed_for_n" /\ pc = "incr"
  /\ cursor' = cursor + 1
  /\ i' = i + 1
  /\ pc' = "test"
  /\ UNCHANGED <<op, joinVars, genVars, input, first, last, n, input0, calls, ret>>

\* !(i < n);  return first;
IndexedForNReturn ==
  /\ op = "indexed_for_n" /\ pc = "test"
  /\ ~(i < n)
  /\ ret' = <<cursor>>
  /\ pc' = "done"
  /\ UNCHANGED <<op, joinVars, genVars, iterVars, calls>>

\* ------------------------------------------------------------------ Next
Next ==
  \/ JoinStringsCall
  \/ JoinStringsVisit
  \/ JoinStringsReturn
  \/ GenerateSequenceCall
  \/ GenerateSequenceImplIllFormed
  \/ GenerateSequenceImplInvoke
  \/ GenerateSequenceImplReturn
  \/ ForEachNCall
  \/ ForEachNInvoke
  \/ ForEachNAdvance
  \/ ForEachNReturn
  \/ IndexedForCall
  \/ IndexedForVisit
  \/ IndexedForReturn
  \/ IndexedForNCall
  \/ IndexedForNInvoke
  \/ IndexedForNAdvance
  \/ IndexedForNReturn

Spec == Init /\ [][Next]_vars

\* ============================================================ properties
\* The reference join: one separator between each two consecutive elements.
RECURSIVE RefJoin(_, _)
RefJoin(S, J) ==
  IF S = <<>> THEN <<>>
  ELSE IF Len(S) = 1 THEN S[1]
  ELSE S[1] \o J \o RefJoin(Tail(S), J)

\* S without its leading run of empty strings.
RECURSIVE DropLeadingEmpty(_)
DropLeadingEmpty(S) ==
  IF S = <<>> THEN <<>>
  ELSE IF S[1] = <<>> THEN DropLeadingEmpty(Tail(S))
  ELSE S

\* What a summing visitor has accumulated over the logged invocations.
RECURSIVE SumOfElements(_)
SumOfElements(log) ==
  IF log = <<>> THEN 0 ELSE log[1][1] + SumOfElements(Tail(log))

Returned == pc = "done"

\* C1: join_strings(S, J) is S[0] + J + S[1] + ... + J + S[|S|-1], with the
\* separator exactly once between every two consecutive elements.
C1_JoinIsReferenceJoin ==
  (op = "join_strings" /\ Returned) => ret = <<RefJoin(strs, js)>>

C2_IndexedForIndicesFromZero ==
  op = "indexed_for" =>
    /\ \A k \in 1 .. Len(calls) : calls[k] = <<Deref(first + k - 1), k - 1>>
    /\ Returned => Len(calls) = last - first

\* C3: indexed_for returns the length of [first, last); on an empty range it
\* invokes nothing and returns 0.
C3_IndexedForReturnsLength ==
  (op = "indexed_for" /\ Returned) =>
    /\ ret = <<last - first>>
    /\ (first = last) => (calls = <<>> /\ ret = <<0>>)

\* C4 as claimed: every invocation made by indexed_for_n passes the visited
\* element only, and n alone sets the number of invocations.
C4_VisitorGetsElementOnly ==
  op = "indexed_for_n" =>
    /\ \A k \in 1 .. Len(calls) : calls[k] = <<Deref(first + k - 1)>>
    /\ Returned => Len(calls) = n

\* C4 as amended: every invocation made by indexed_for_n passes the visited
\* element together with the zero-based index of the visit, and n alone sets
\* the number of invocations.
C4_VisitorGetsElementAndIndex ==
  op = "indexed_for_n" =>
    /\ \A k \in 1 .. Len(calls) : calls[k] = <<Deref(first + k - 1), k - 1>>
    /\ Len(calls) <= n
    /\ Returned => Len(calls) = n

C4_Witness ==
  /\ op = "indexed_for_n" /\ Returned
  /\ n >= 2
  /\ Len(calls) = n
  /\ calls[2][2] = 1

\* C5: with 0 <= n <= remaining length, for_each_n and indexed_for_n invoke
\* the visitor exactly n times and return first advanced n steps; n = 0 makes
\* no invocation and returns first; over [10,20,30,40] from 0 with n = 2 a
\* summing visitor accumulates 30 and position 2 is returned.
C5_CountedVisitsAndReturn ==
  (op \in {"for_each_n", "indexed_for_n"} /\ 0 <= n /\ n <= Len(input) - first) =>
    /\ Len(calls) <= n
    /\ Returned =>
         /\ Len(calls) = n
         /\ ret = <<first + n>>
         /\ (n = 0) => (calls = <<>> /\ ret = <<first>>)
         /\ (input = <<10, 20, 30, 40>> /\ first = 0 /\ n = 2) =>
              (SumOfElements(calls) = 30 /\ ret = <<2>>)

C5_Witness ==
  /\ op = "indexed_for_n" /\ Returned
  /\ input = <<10, 20, 30, 40>> /\ first = 0 /\ n = 2
  /\ SumOfElements(calls) = 30
  /\ ret = <<2>>

\* C6: generate_sequence<N>(g) returns, for every N >= 0, a container of
\* exactly N elements with g(i) at position i; for N = 0 an empty one.
C6_GenerateSequenceForEveryN ==
  op = "generate_sequence" =>
    /\ pc # "ill_formed"
    /\ Returned => /\ Len(ret[1]) = tn
                   /\ \A k \in 1 .. tn : ret[1][k] = gen[k - 1]

\* C7: one call of generate_sequence<N>(g) invokes g exactly once on each of
\* 0 .. N-1, on nothing else, in ascending order, each invocation complete
\* before the next starts.
C7_GeneratorCalledAscendingOnce ==
  op = "generate_sequence" =>
    /\ \A k \in 1 .. Len(calls) : calls[k] = <<k - 1>>
    /\ Len(calls) <= tn
    /\ Returned => Len(calls) = tn

C7_Witness ==
  /\ op = "generate_sequence" /\ Returned
  /\ tn >= 3
  /\ calls[1] = <<0>> /\ calls[2] = <<1>> /\ calls[3] = <<2>>
  /\ gen[0] # gen[1]

\* C8: no function writes to the caller's sequence: at every point of the
\* call, and after it, the sequence equals the copy taken before the call.
C8_InputNotMutated ==
  /\ input = input0
  /\ strs = strs0

C8_Witness ==
  /\ op = "for_each_n" /\ Returned
  /\ n >= 2
  /\ Len(calls) = n
  /\ input = input0

\* C9: in for_each_n the k-th invocation (k = 0 .. n-1) gets the element at
\* first + k and the index k, it happens before the cursor moves past that
\* element, and the index always equals the number of advances made.
C9_ForEachNInvokeBeforeAdvance ==
  (op = "for_each_n" /\ pc # "call" /\ 0 <= n /\ n <= Len(input) - first) =>
    /\ \A k \in 1 .. Len(calls) : calls[k] = <<Deref(first + k - 1), k - 1>>
    /\ i = cursor - first
    /\ (pc = "incr") => /\ Len(calls) = i + 1
                        /\ calls[Len(calls)] = <<Deref(cursor), i>>
    /\ (pc \in {"test", "done"}) => Len(calls) = i

C9_Witness ==
  /\ op = "for_each_n" /\ pc = "incr"
  /\ first >= 1
  /\ i >= 1
  /\ calls[Len(calls)] = <<Deref(cursor), i>>
====
